---- MODULE Spec2Model ----
(***************************************************************************)
(* A model of audiomd/audiomd.py: builders of AudioMD element trees over   *)
(* lxml.etree.  The state is the heap of lxml elements built so far and a  *)
(* record of the last builder call; every builder call is one action.      *)
(*                                                                         *)
(* Python values are tagged records (None, str, list, lxml element, module *)
(* level function object), so that the truth test `if x:` and the loop     *)
(* `for e in x:` of the primitives act on them as Python and lxml do:      *)
(*   - a str is true iff non-empty and iterates over its characters;       *)
(*   - a list is true iff non-empty and iterates over its items;           *)
(*   - an lxml element is true iff it has children and iterates over them; *)
(*   - parent.append(e) of lxml MOVES e out of its previous parent.        *)
(***************************************************************************)
EXTENDS Naturals, Sequences, FiniteSets, TLC

\* heap:   the lxml elements created so far (a node's id is its index)
\* last:   the last builder call: its name, arguments, outcome, the heap
\*         size before it and the children it attached
\* ncalls: the number of calls made
\* done:   the caller has built the tree it was after and makes no more calls
VARIABLES heap, last, ncalls, done

vars == <<heap, last, ncalls, done>>

(***************************************************************************)
(* Bounds of the model.                                                    *)
(***************************************************************************)
MaxCalls == 3
MaxList == 2
MaxTag == 3

(***************************************************************************)
(* Python values.                                                          *)
(***************************************************************************)
None == [kind |-> "none"]

Str(s) == [kind |-> "str", s |-> s]

List(items) == [kind |-> "list", items |-> items]

Elem(id) == [kind |-> "elem", id |-> id]

Func(name) == [kind |-> "function", name |-> name]

\* bool(v): the truth test of `if v:`.  lxml's _Element.__bool__ is
\* "has children".
Truthy(h, v) ==
    CASE v.kind = "none" -> FALSE
      [] v.kind = "str" -> v.s # ""
      [] v.kind = "list" -> Len(v.items) > 0
      [] v.kind = "elem" -> Len(h[v.id].children) > 0
      [] OTHER -> TRUE

\* iter(v): the items `for e in v:` visits.  Only called on a true value.
Iter(h, v) ==
    CASE v.kind = "str" -> [i \in 1..Len(v.s) |-> Str(SubSeq(v.s, i, i))]
      [] v.kind = "list" -> v.items
      [] v.kind = "elem" ->
           [i \in 1..Len(h[v.id].children) |-> Elem(h[v.id].children[i])]
      [] OTHER -> <<>>

(***************************************************************************)
(* Namespace / tag layer.                                                  *)
(***************************************************************************)
AudioMD_NS == "http://www.loc.gov/audioMD/"

\* str.upper() of one character (ASCII letters).
Upper(c) ==
    CASE c = "a" -> "A" [] c = "b" -> "B" [] c = "c" -> "C" [] c = "d" -> "D"
      [] c = "e" -> "E" [] c = "f" -> "F" [] c = "g" -> "G" [] c = "h" -> "H"
      [] c = "i" -> "I" [] c = "j" -> "J" [] c = "k" -> "K" [] c = "l" -> "L"
      [] c = "m" -> "M" [] c = "n" -> "N" [] c = "o" -> "O" [] c = "p" -> "P"
      [] c = "q" -> "Q" [] c = "r" -> "R" [] c = "s" -> "S" [] c = "t" -> "T"
      [] c = "u" -> "U" [] c = "v" -> "V" [] c = "w" -> "W" [] c = "x" -> "X"
      [] c = "y" -> "Y" [] c = "z" -> "Z" [] OTHER -> c

\* audiomd_ns capitalizing the local name whether or not a prefix is given.
audiomd_ns_always_upper(tag, prefix) ==
    "{" \o AudioMD_NS \o "}" \o prefix
    \o Upper(SubSeq(tag, 1, 1)) \o SubSeq(tag, 2, Len(tag))

audiomd_ns(tag, prefix) ==
    IF prefix # ""
    THEN "{" \o AudioMD_NS \o "}" \o prefix
         \o Upper(SubSeq(tag, 1, 1)) \o SubSeq(tag, 2, Len(tag))
    ELSE "{" \o AudioMD_NS \o "}" \o tag

\* xml_helpers.utils.xsi_ns: the same shape of qualified name in the XSI
\* namespace.
xsi_ns(tag) == "{http://www.w3.org/2001/XMLSchema-instance}" \o tag

(***************************************************************************)
(* lxml elements.  A heap is a sequence of nodes, a node's id its index.   *)
(* A builder run threads a context c: the heap, the pending exception, the *)
(* local variables of the running builder and the log of the children it   *)
(* attached (step number, node).                                           *)
(***************************************************************************)
NewNode(tag, parent) ==
    [tag |-> tag, attrs |-> <<>>, hasText |-> FALSE, text |-> "",
     children |-> <<>>, parent |-> parent]

Without(seq, x) == SelectSeq(seq, LAMBDA y : y # x)

\* An identifier of the builder's body: one of its local variables, or
\* else the module-level function of that name.
Resolve(c, ident) ==
    IF ident \in DOMAIN c.locals THEN Elem(c.locals[ident]) ELSE Func(ident)

Raise(c, e) == [c EXCEPT !.err = e]

\* ET.Element(tag): a fresh node without parent; its id is Len(.h) after.
Element(c, tag) == [c EXCEPT !.h = Append(c.h, NewNode(tag, 0))]

\* ET.SubElement(parent, tag): a fresh node linked as the last child of
\* parent; its id is Len(.h) after.  A parent that is no element is a
\* TypeError.
SubElement(c, parent, tag, step) ==
    IF parent.kind # "elem" THEN Raise(c, "TypeError")
    ELSE LET id == Len(c.h) + 1
             h1 == Append(c.h, NewNode(tag, parent.id))
         IN [c EXCEPT !.h = [h1 EXCEPT ![parent.id].children = Append(@, id)],
                      !.emit = Append(@, <<step, id>>)]

\* name = <element just created>
Bind(c, name) == [c EXCEPT !.locals = (name :> Len(c.h)) @@ @]

\* element.text = v
SetText(c, target, v) ==
    IF target.kind # "elem" THEN Raise(c, "AttributeError")
    ELSE IF v.kind = "none"
         THEN [c EXCEPT !.h[target.id].hasText = FALSE, !.h[target.id].text = ""]
    ELSE IF v.kind = "str"
         THEN [c EXCEPT !.h[target.id].hasText = TRUE, !.h[target.id].text = v.s]
    ELSE Raise(c, "TypeError")

\* element.set(name, v)
SetAttr(c, target, name, v) ==
    IF target.kind # "elem" THEN Raise(c, "AttributeError")
    ELSE IF v.kind # "str" THEN Raise(c, "TypeError")
    ELSE [c EXCEPT !.h[target.id].attrs = (name :> v.s) @@ @]

IsAncestorOrSame(h, a, n) ==
    LET RECURSIVE Up(_, _)
        Up(x, fuel) == IF x = a THEN TRUE
                       ELSE IF x = 0 \/ fuel = 0 THEN FALSE
                       ELSE Up(h[x].parent, fuel - 1)
    IN Up(n, Len(h))

\* parent.append(child): a function object has no append; lxml refuses a
\* non-element and an ancestor of parent, and otherwise unlinks child from
\* its previous parent before linking it as the last child of parent.
AppendChild(c, parent, child, step) ==
    IF parent.kind # "elem" THEN Raise(c, "AttributeError")
    ELSE IF child.kind # "elem" THEN Raise(c, "TypeError")
    ELSE IF IsAncestorOrSame(c.h, child.id, parent.id) THEN Raise(c, "ValueError")
    ELSE LET old == c.h[child.id].parent
             h1 == IF old = 0 THEN c.h
                   ELSE [c.h EXCEPT ![old].children = Without(@, child.id)]
             h2 == [h1 EXCEPT ![parent.id].children = Append(@, child.id),
                              ![child.id].parent = parent.id]
         IN [c EXCEPT !.h = h2, !.emit = Append(@, <<step, child.id>>)]

(***************************************************************************)
(* Element-construction primitives.                                        *)
(***************************************************************************)
_element(c, tag) == Element(c, audiomd_ns(tag, ""))

_subelement(c, parent, tag, step) ==
    SubElement(c, parent, audiomd_ns(tag, ""), step)

\* amd_element = _subelement(parent, element_name); amd_element.text = element
SubelementWithText(c, parent, element, element_name, step) ==
    LET c1 == _subelement(c, parent, element_name, step)
    IN IF c1.err # "none" THEN c1 ELSE SetText(c1, Elem(Len(c1.h)), element)

\* _one_simple_element testing `if element is not None:`: an empty string
\* gets a child too.
_one_simple_element_not_none(c, parent, element, element_name, step) ==
    IF element.kind = "none" THEN c
    ELSE SubelementWithText(c, parent, element, element_name, step)

\* if element: <subelement with text element>
_one_simple_element(c, parent, element, element_name, step) ==
    IF ~Truthy(c.h, element) THEN c
    ELSE SubelementWithText(c, parent, element, element_name, step)

\* The loop of _simple_elements over the items still to visit; an exception
\* ends it.
RECURSIVE SimpleLoop(_, _, _, _, _)
SimpleLoop(c, parent, items, element_name, step) ==
    IF c.err # "none" \/ Len(items) = 0 THEN c
    ELSE SimpleLoop(SubelementWithText(c, parent, Head(items), element_name, step),
                    parent, Tail(items), element_name, step)

\* if elements: for element in elements: <subelement with text element>
_simple_elements(c, parent, elements, element_name, step) ==
    IF ~Truthy(c.h, elements) THEN c
    ELSE SimpleLoop(c, parent, Iter(c.h, elements), element_name, step)

\* The loop of _add_elements.  lxml's child iterator fetches the next
\* sibling before the body runs, so moving the current child away does not
\* cut the loop short: the items are those present when the loop starts.
RECURSIVE AddLoop(_, _, _, _)
AddLoop(c, parent, items, step) ==
    IF c.err # "none" \/ Len(items) = 0 THEN c
    ELSE AddLoop(AppendChild(c, parent, Head(items), step),
                 parent, Tail(items), step)

\* if elements: for element in elements: parent.append(element)
_add_elements(c, parent, elements, step) ==
    IF ~Truthy(c.h, elements) THEN c
    ELSE AddLoop(c, parent, Iter(c.h, elements), step)

(***************************************************************************)
(* Section builders.  A builder body is the sequence of its statements,    *)
(* each <<operation, target identifier, argument, name>> as written in the *)
(* source; args maps the builder's parameter names to the values passed.   *)
(***************************************************************************)
RunStep(c, st, args, i) ==
    LET op == st[1]
        target == Resolve(c, st[2])
    IN CASE op = "_simple_elements" ->
              _simple_elements(c, target, args[st[3]], st[4], i)
         [] op = "_one_simple_element" ->
              _one_simple_element(c, target, args[st[3]], st[4], i)
         [] op = "_add_elements" -> _add_elements(c, target, args[st[3]], i)
         [] op = "set_if" ->
              IF Truthy(c.h, args[st[3]])
              THEN SetAttr(c, target, st[4], args[st[3]]) ELSE c
         [] op = "set" -> SetAttr(c, target, st[4], args[st[3]])
         [] op = "set_literal" -> SetAttr(c, target, st[4], Str(st[3]))
         [] op = "append_if" ->
              IF Truthy(c.h, args[st[3]])
              THEN AppendChild(c, target, args[st[3]], i) ELSE c
         [] op = "_subelement" ->
              LET c1 == _subelement(c, target, st[4], i)
              IN IF c1.err # "none" THEN c1 ELSE Bind(c1, st[3])
         [] op = "text" -> SetText(c, target, args[st[3]])
         [] OTHER -> Raise(c, "NameError")

RECURSIVE RunSteps(_, _, _, _)
RunSteps(c, steps, args, i) ==
    IF c.err # "none" \/ i > Len(steps) THEN c
    ELSE RunSteps(RunStep(c, steps[i], args, i), steps, args, i + 1)

\* local = _element(tag); <steps>; return local
RunBuilder(h, b, args) ==
    LET c0 == [h |-> h, err |-> "none", locals |-> <<>>, emit |-> <<>>]
        c1 == Bind(_element(c0, b.tag), b.local)
        c2 == RunSteps(c1, b.steps, args, 1)
    IN [h |-> c2.h, err |-> c2.err, emit |-> c2.emit,
        res |-> IF c2.err = "none" THEN c2.locals[b.local] ELSE 0]

\* A builder: its local variable for the element it returns, that element's
\* tag, its statements, and for each parameter the statement that uses it.
Consuming(steps) ==
    {k \in 1..Len(steps) : steps[k][1] \notin {"set_literal", "_subelement"}}

Builder(local, tag, steps) ==
    [local |-> local, tag |-> tag, steps |-> steps,
     uses |-> [p \in {steps[k][3] : k \in Consuming(steps)} |->
                  CHOOSE k \in Consuming(steps) : steps[k][3] = p]]

(***************************************************************************)
(* The builders, statement by statement.                                   *)
(***************************************************************************)
\* audiomd(): the root element; the schema location and the flag are set
\* unconditionally, each section is appended `if section:`.
audiomd ==
    Builder("audiomd", "amd", <<
        <<"set_literal", "audiomd", AudioMD_NS, xsi_ns("schemaLocation")>>,
        <<"set", "audiomd", "ANALOGDIGITALFLAG", "ANALOGDIGITALFLAG">>,
        <<"append_if", "audiomd", "fileData", "">>,
        <<"append_if", "audiomd", "physicalData", "">>,
        <<"append_if", "audiomd", "audioInfo", "">>,
        <<"append_if", "audiomd", "calibrationInfo", "">> >>)

\* amd_fileData(): 19 repeatable text fields and two lists of pre-built
\* elements, in the order of the source.
FileDataSteps ==
    <<
        <<"_simple_elements", "amd_fileData", "audioBlockSize", "audioBlockSize">>,
        <<"_simple_elements", "amd_fileData", "audioDataEncoding", "audioDataEncoding">>,
        <<"_simple_elements", "amd_fileData", "bitsPerSample", "bitsPerSample">>,
        <<"_simple_elements", "amd_fileData", "byteOrder", "byteOrder">>,
        <<"_add_elements", "amd_fileData", "messageDigest", "">>,
        <<"_add_elements", "amd_fileData", "Compression", "">>,
        <<"_simple_elements", "amd_fileData", "dataRate", "dataRate">>,
        <<"_simple_elements", "amd_fileData", "dataRateMode", "dataRateMode">>,
        <<"_simple_elements", "amd_fileData", "firstSampleOffset", "firstSampleOffset">>,
        <<"_simple_elements", "amd_fileData", "firstValidByteBlock", "firstValidByteBlock">>,
        <<"_simple_elements", "amd_fileData", "formatLocation", "formatLocation">>,
        <<"_simple_elements", "amd_fileData", "formatName", "formatName">>,
        <<"_simple_elements", "amd_fileData", "formatNote", "formatNote">>,
        <<"_simple_elements", "amd_fileData", "formatVersion", "formatVersion">>,
        <<"_simple_elements", "amd_fileData", "lastValidByteBlock", "lastValidByteBlock">>,
        <<"_simple_elements", "amd_fileData", "numSampleFrames", "numSampleFrames">>,
        <<"_simple_elements", "amd_fileData", "samplingFrequency", "samplingFrequency">>,
        <<"_simple_elements", "amd_fileData", "security", "security">>,
        <<"_simple_elements", "amd_fileData", "use", "use">>,
        <<"_simple_elements", "amd_fileData", "otherUse", "otherUse">>,
        <<"_simple_elements", "amd_fileData", "wordSize", "wordSize">> >>

\* amd_fileData with two adjacent statements transposed: dataRate is
\* emitted before the Compression elements.
amd_fileData_transposed ==
    Builder("amd_fileData", "fileData",
            [FileDataSteps EXCEPT ![6] = FileDataSteps[7], ![7] = FileDataSteps[6]])

\* def amd_fileData(...): amd_fileData = _element('fileData'); the
\* statements; return amd_fileData
amd_fileData == Builder("amd_fileData", "fileData", FileDataSteps)

\* amd_messageDigest(): three unconditional text children.
amd_messageDigest ==
    Builder("amd_messageDigest", "messageDigest", <<
        <<"_subelement", "amd_messageDigest", "amd_messageDigestDatetime", "messageDigestDatetime">>,
        <<"text", "amd_messageDigestDatetime", "messageDigestDatetime", "">>,
        <<"_subelement", "amd_messageDigest", "amd_messageDigestAlgorithm", "messageDigestAlgorithm">>,
        <<"text", "amd_messageDigestAlgorithm", "messageDigestAlgorithm", "">>,
        <<"_subelement", "amd_messageDigest", "amd_messageDigestValue", "messageDigest">>,
        <<"text", "amd_messageDigestValue", "messageDigest", "">> >>)

\* amd_compression()
amd_compression ==
    Builder("amd_compression", "compression", <<
        <<"_one_simple_element", "amd_compression", "codecCreatorApp", "codecCreatorApp">>,
        <<"_one_simple_element", "amd_compression", "codecCreatorAppVersion", "codecCreatorAppVersion">>,
        <<"_one_simple_element", "amd_compression", "codecName", "codecName">>,
        <<"_one_simple_element", "amd_compression", "codecQuality", "codecQuality">> >>)

\* amd_physicalData(): the three _add_elements statements name amd_fileData,
\* which in this function is the module-level function of that name.
amd_physicalData ==
    Builder("amd_physicalData", "physicalData", <<
        <<"_simple_elements", "amd_physicalData", "EBUStorageMediaCodes", "EBUStorageMediaCodes">>,
        <<"_simple_elements", "amd_physicalData", "condition", "condition">>,
        <<"_add_elements", "amd_fileData", "dimensions", "">>,
        <<"_simple_elements", "amd_physicalData", "disposition", "disposition">>,
        <<"_simple_elements", "amd_physicalData", "equalization", "equalization">>,
        <<"_simple_elements", "amd_physicalData", "generation", "generation">>,
        <<"_simple_elements", "amd_physicalData", "groove", "groove">>,
        <<"_add_elements", "amd_fileData", "material", "">>,
        <<"_simple_elements", "amd_physicalData", "noiseReduction", "noiseReduction">>,
        <<"_simple_elements", "amd_physicalData", "physFormat", "physFormat">>,
        <<"_simple_elements", "amd_physicalData", "speed", "speed">>,
        <<"_simple_elements", "amd_physicalData", "speedAdjustment", "speedAdjustment">>,
        <<"_simple_elements", "amd_physicalData", "speedNote", "speedNote">>,
        <<"_simple_elements", "amd_physicalData", "trackFormat", "trackFormat">>,
        <<"_add_elements", "amd_fileData", "tracking", "">>,
        <<"_simple_elements", "amd_physicalData", "note", "note">> >>)

\* amd_dimensions(): attributes, each set `if value:`.
DimensionsSteps ==
    <<
        <<"set_if", "amd_dimensions", "depth", "DEPTH">>,
        <<"set_if", "amd_dimensions", "diameter", "DIAMETER">>,
        <<"set_if", "amd_dimensions", "gauge", "GAUGE">>,
        <<"set_if", "amd_dimensions", "height", "HEIGHT">>,
        <<"set_if", "amd_dimensions", "length", "LENGTH">>,
        <<"set_if", "amd_dimensions", "note", "NOTE">>,
        <<"set_if", "amd_dimensions", "thickness", "THICKNESS">>,
        <<"set_if", "amd_dimensions", "units", "UNITS">>,
        <<"set_if", "amd_dimensions", "width", "WIDTH">> >>

\* amd_dimensions with a copy-and-paste slip: width is written to UNITS.
amd_dimensions_width_as_units ==
    Builder("amd_dimensions", "dimensions",
            [DimensionsSteps EXCEPT ![9] = <<"set_if", "amd_dimensions", "width", "UNITS">>])

\* def amd_dimensions(...)
amd_dimensions == Builder("amd_dimensions", "dimensions", DimensionsSteps)

\* amd_material()
amd_material ==
    Builder("amd_material", "material", <<
        <<"_one_simple_element", "amd_material", "baseMaterial", "baseMaterial">>,
        <<"_one_simple_element", "amd_material", "binder", "binder">>,
        <<"_one_simple_element", "amd_material", "discSurface", "discSurface">>,
        <<"_one_simple_element", "amd_material", "oxide", "oxide">>,
        <<"_one_simple_element", "amd_material", "activeLayer", "activeLayer">>,
        <<"_one_simple_element", "amd_material", "reflectiveLayer", "reflectiveLayer">>,
        <<"_one_simple_element", "amd_material", "stockBrand", "stockBrand">>,
        <<"_one_simple_element", "amd_material", "method", "method">>,
        <<"_one_simple_element", "amd_material", "usedSides", "usedSides">> >>)

\* amd_tracking()
amd_tracking ==
    Builder("amd_tracking", "tracking", <<
        <<"_one_simple_element", "amd_tracking", "trackingType", "trackingType">>,
        <<"_one_simple_element", "amd_tracking", "trackingValue", "trackingValue">> >>)

\* amd_audioInfo()
amd_audioInfo ==
    Builder("amd_audioInfo", "audioInfo", <<
        <<"_simple_elements", "amd_audioInfo", "duration", "duration">>,
        <<"_simple_elements", "amd_audioInfo", "note", "note">>,
        <<"_simple_elements", "amd_audioInfo", "numChannels", "numChannels">>,
        <<"_add_elements", "amd_audioInfo", "soundChannelMap", "">>,
        <<"_simple_elements", "amd_audioInfo", "soundField", "soundField">> >>)

\* amd_soundChannelMap(): the channelAssignment child is created
\* unconditionally, its two attributes are set `if value:`.
SoundChannelMapSteps ==
    <<
        <<"_subelement", "amd_soundChannelMap", "amd_channelAssignment", "channelAssignment">>,
        <<"set_if", "amd_channelAssignment", "channelnum", "CHANNELNUM">>,
        <<"set_if", "amd_channelAssignment", "maplocation", "MAPLOCATION">> >>

\* amd_soundChannelMap with the map location set on the soundChannelMap
\* element instead of its channelAssignment child.
amd_soundChannelMap_on_root ==
    Builder("amd_soundChannelMap", "soundChannelMap",
            [SoundChannelMapSteps EXCEPT
                ![3] = <<"set_if", "amd_soundChannelMap", "maplocation", "MAPLOCATION">>])

\* def amd_soundChannelMap(...)
amd_soundChannelMap == Builder("amd_soundChannelMap", "soundChannelMap", SoundChannelMapSteps)

\* amd_calibrationInfo(): the third statement names amd_audioInfo, which in
\* this function is the module-level function of that name.
amd_calibrationInfo ==
    Builder("amd_calibrationInfo", "calibrationInfo", <<
        <<"_one_simple_element", "amd_calibrationInfo", "calibrationExtInt", "calibrationExtInt">>,
        <<"_one_simple_element", "amd_calibrationInfo", "calibrationLocation", "calibrationLocation">>,
        <<"_simple_elements", "amd_audioInfo", "calibrationTimeStamp", "calibrationTimeStamp">>,
        <<"_one_simple_element", "amd_calibrationInfo", "calibrationTrackType", "calibrationTrackType">> >>)

(***************************************************************************)
(* The arguments a caller passes.  A parameter's documented shape follows  *)
(* from the statement that consumes it.                                    *)
(***************************************************************************)
Params(b) == DOMAIN b.uses

\* The statement that consumes parameter p, and its operation.
StepOf(b, p) == b.uses[p]

ParamOp(b, p) == b.steps[b.uses[p]][1]

\* The tag of the elements documented for a pre-built parameter.
ParamTag(p) == audiomd_ns(IF p = "Compression" THEN "compression" ELSE p, "")

StrVals == {Str(""), Str("8"), Str("PCM")}

TextLists == {List(<<>>), List(<<Str("8"), Str("PCM")>>)}

ElemsOfTag(h, tag) == {id \in 1..Len(h) : h[id].tag = tag}

SeqsUpTo(S, n) == UNION {[1..k -> S] : k \in 0..n}

PrebuiltVals(h, tag) ==
    {None} \cup {Elem(id) : id \in ElemsOfTag(h, tag)}
           \cup {List(s) : s \in SeqsUpTo({Elem(id) : id \in ElemsOfTag(h, tag)}, MaxList)}

Flags == {Str("FileDigital"), Str("PhysDigital")}

\* Every documented value of parameter p of builder b.
WideVals(h, b, p) ==
    LET op == ParamOp(b, p) IN
    CASE op = "_simple_elements" -> {None, Str(""), Str("PCM")} \cup TextLists
      [] op \in {"_one_simple_element", "set_if"} -> {None} \cup StrVals
      [] op = "text" -> StrVals
      [] op = "set" -> Flags
      [] op = "_add_elements" -> PrebuiltVals(h, ParamTag(p))
      [] op = "append_if" ->
           {None} \cup {Elem(id) : id \in ElemsOfTag(h, ParamTag(p))}
      [] OTHER -> {None}

\* The value of a parameter the caller leaves out: the default of the
\* signature (the parameters of amd_messageDigest have none: every call
\* passes them).
Default(b, p) ==
    IF ParamOp(b, p) = "set" THEN Str("FileDigital") ELSE None

\* A value that supplies something: not None, not "" and not [].
Supplied(v) ==
    CASE v.kind = "none" -> FALSE
      [] v.kind = "str" -> v.s # ""
      [] v.kind = "list" -> Len(v.items) > 0
      [] OTHER -> TRUE

\* Calls that pass one parameter with any of its documented values, or two
\* parameters each with a value that supplies something; the other
\* parameters are left out.
WideArgs(h, b) ==
    LET vals == [p \in Params(b) |-> WideVals(h, b, p)]
        some == [p \in Params(b) |-> {v \in vals[p] : Supplied(v)}]
        dflt == [p \in Params(b) |-> Default(b, p)]
    IN UNION {{[dflt EXCEPT ![p] = v] : v \in vals[p]} : p \in Params(b)}
       \cup
       UNION {{[dflt EXCEPT ![pq[1]] = v, ![pq[2]] = w] :
                  v \in some[pq[1]], w \in some[pq[2]]} :
              pq \in {y \in Params(b) \X Params(b) : StepOf(b, y[1]) < StepOf(b, y[2])}}

\* The calls that give each parameter p of ps a value of vals[p].
RECURSIVE Product(_, _)
Product(ps, vals) ==
    IF ps = {} THEN {<<>>}
    ELSE LET p == CHOOSE x \in ps : TRUE
         IN {(p :> v) @@ f : v \in vals[p], f \in Product(ps \ {p}, vals)}

\* Calls that pass every parameter with any of its documented values (the
\* builders with few parameters).
AllArgs(h, b) == Product(Params(b), [p \in Params(b) |-> WideVals(h, b, p)])

\* The calls of a caller that assembles a document: the pre-built
\* parameters and the flag take any documented value, of the text
\* parameters only the first is passed, as "PCM" or not at all.
FirstText(b) ==
    LET T == {k \in Consuming(b.steps) : b.steps[k][1] \in
                 {"_simple_elements", "_one_simple_element", "set_if"}}
    IN {b.steps[k][3] : k \in {m \in T : \A n \in T : m <= n}}

NarrowVals(h, b, p) ==
    LET op == ParamOp(b, p) IN
    CASE op \in {"_simple_elements", "_one_simple_element", "set_if"} ->
           IF p \in FirstText(b) THEN {None, Str("PCM")} ELSE {None}
      [] op = "text" -> {Str("8")}
      [] OTHER -> WideVals(h, b, p)

NarrowArgs(h, b) ==
    Product(Params(b), [p \in Params(b) |-> NarrowVals(h, b, p)])

(***************************************************************************)
(* The state machine: every call of a builder is one action.               *)
(***************************************************************************)
NoCall ==
    [op |-> "none", args |-> <<>>, res |-> 0, err |-> "none", base |-> 0,
     emit |-> <<>>]

Init ==
    /\ heap = <<>>
    /\ last = NoCall
    /\ ncalls = 0
    /\ done = FALSE

\* The caller goes on calling builders.
CanCall == ~done /\ ncalls < MaxCalls

\* result = b(**args); with final the caller stops after this call.
Call(name, b, args, final) ==
    /\ LET r == RunBuilder(heap, b, args) IN
         /\ heap' = r.h
         /\ last' = [op |-> name, args |-> args, res |-> r.res, err |-> r.err,
                     base |-> Len(heap), emit |-> r.emit]
    /\ ncalls' = ncalls + 1
    /\ done' = final

Call_audiomd ==
    CanCall /\ \E a \in NarrowArgs(heap, audiomd) : Call("audiomd", audiomd, a, FALSE)

Call_amd_fileData ==
    CanCall /\ \E a \in NarrowArgs(heap, amd_fileData) : Call("amd_fileData", amd_fileData, a, FALSE)

Call_amd_messageDigest ==
    CanCall /\ \E a \in NarrowArgs(heap, amd_messageDigest) :
        Call("amd_messageDigest", amd_messageDigest, a, FALSE)

Call_amd_compression ==
    CanCall /\ \E a \in NarrowArgs(heap, amd_compression) :
        Call("amd_compression", amd_compression, a, FALSE)

Call_amd_physicalData ==
    CanCall /\ \E a \in NarrowArgs(heap, amd_physicalData) :
        Call("amd_physicalData", amd_physicalData, a, FALSE)

Call_amd_dimensions ==
    CanCall /\ \E a \in NarrowArgs(heap, amd_dimensions) :
        Call("amd_dimensions", amd_dimensions, a, FALSE)

Call_amd_material ==
    CanCall /\ \E a \in NarrowArgs(heap, amd_material) : Call("amd_material", amd_material, a, FALSE)

Call_amd_tracking ==
    CanCall /\ \E a \in NarrowArgs(heap, amd_tracking) : Call("amd_tracking", amd_tracking, a, FALSE)

Call_amd_audioInfo ==
    CanCall /\ \E a \in NarrowArgs(heap, amd_audioInfo) : Call("amd_audioInfo", amd_audioInfo, a, FALSE)

Call_amd_soundChannelMap ==
    CanCall /\ \E a \in NarrowArgs(heap, amd_soundChannelMap) :
        Call("amd_soundChannelMap", amd_soundChannelMap, a, FALSE)

Call_amd_calibrationInfo ==
    CanCall /\ \E a \in NarrowArgs(heap, amd_calibrationInfo) :
        Call("amd_calibrationInfo", amd_calibrationInfo, a, FALSE)

\* The program: any sequence of builder calls.
Next ==
    \/ Call_audiomd
    \/ Call_amd_fileData
    \/ Call_amd_messageDigest
    \/ Call_amd_compression
    \/ Call_amd_physicalData
    \/ Call_amd_dimensions
    \/ Call_amd_material
    \/ Call_amd_tracking
    \/ Call_amd_audioInfo
    \/ Call_amd_soundChannelMap
    \/ Call_amd_calibrationInfo

Spec == Init /\ [][Next]_vars

(***************************************************************************)
(* A caller that builds one tree from text values: its call passes any     *)
(* documented values and is its last.                                      *)
(***************************************************************************)
\* Every subset of the parameters passed as "8", or at most two parameters
\* passed with any documented value.
AttrArgs(h, b) ==
    Product(Params(b), [p \in Params(b) |-> {None, Str("8")}]) \cup WideArgs(h, b)

Build_amd_dimensions ==
    CanCall /\ \E a \in AttrArgs(heap, amd_dimensions) :
        Call("amd_dimensions", amd_dimensions, a, TRUE)

Build_amd_soundChannelMap ==
    CanCall /\ \E a \in AllArgs(heap, amd_soundChannelMap) :
        Call("amd_soundChannelMap", amd_soundChannelMap, a, TRUE)

Build_amd_calibrationInfo ==
    CanCall /\ \E a \in AllArgs(heap, amd_calibrationInfo) :
        Call("amd_calibrationInfo", amd_calibrationInfo, a, TRUE)

Build_amd_compression ==
    CanCall /\ \E a \in AllArgs(heap, amd_compression) :
        Call("amd_compression", amd_compression, a, TRUE)

Build_amd_material ==
    CanCall /\ \E a \in AttrArgs(heap, amd_material) :
        Call("amd_material", amd_material, a, TRUE)

Build_amd_tracking ==
    CanCall /\ \E a \in AllArgs(heap, amd_tracking) :
        Call("amd_tracking", amd_tracking, a, TRUE)

Build_amd_messageDigest ==
    CanCall /\ \E a \in AllArgs(heap, amd_messageDigest) :
        Call("amd_messageDigest", amd_messageDigest, a, TRUE)

NextLeaf ==
    \/ Build_amd_dimensions
    \/ Build_amd_soundChannelMap
    \/ Build_amd_calibrationInfo
    \/ Build_amd_compression
    \/ Build_amd_material
    \/ Build_amd_tracking
    \/ Build_amd_messageDigest

SpecLeaf == Init /\ [][NextLeaf]_vars

(***************************************************************************)
(* A caller that builds message digests and compressions and then one      *)
(* fileData from them and from text values.                                *)
(***************************************************************************)
Build_amd_fileData ==
    CanCall /\ \E a \in WideArgs(heap, amd_fileData) :
        Call("amd_fileData", amd_fileData, a, TRUE)

NextFileData ==
    \/ Call_amd_messageDigest
    \/ Call_amd_compression
    \/ Build_amd_fileData

SpecFileData == Init /\ [][NextFileData]_vars

(***************************************************************************)
(* The builders that take a parameter mapping (amd_file_data,              *)
(* amd_physical_data, amd_dimensions, amd_material of the test suite).     *)
(* Their validation gate and their recognized-key lists are not in the     *)
(* source at hand and follow the specification; past the gate they run the *)
(* section's statements above.                                             *)
(***************************************************************************)
FILE_DATA_PARAMS ==
    <<"audioBlockSize", "audioDataEncoding", "bitsPerSample", "byteOrder",
      "messageDigest", "Compression", "dataRate", "dataRateMode",
      "firstSampleOffset", "firstValidByteBlock", "formatLocation",
      "formatName", "formatNote", "formatVersion", "lastValidByteBlock",
      "numSampleFrames", "samplingFrequency", "security", "use", "otherUse",
      "wordSize">>

PHYSICAL_DATA_PARAMS ==
    <<"EBUStorageMediaCodes", "condition", "dimensions", "disposition",
      "equalization", "generation", "groove", "material", "noiseReduction",
      "physFormat", "speed", "speedAdjustment", "speedNote", "trackFormat",
      "tracking", "note">>

DIMENSIONS_PARAMS ==
    <<"DEPTH", "DIAMETER", "GAUGE", "HEIGHT", "LENGTH", "NOTE", "THICKNESS",
      "UNITS", "WIDTH">>

MATERIAL_PARAMS ==
    <<"baseMaterial", "binder", "discSurface", "oxide", "activeLayer",
      "reflectiveLayer", "stockBrand", "method", "usedSides">>

Range(seq) == {seq[i] : i \in 1..Len(seq)}

\* get_params(param_list): every recognized key, set to None.
get_params(param_list) == [k \in Range(param_list) |-> None]

\* The gate with a slip: a key whose value is None is not looked at.
_check_params_skips_none(params, recognized) ==
    IF \E k \in DOMAIN params : params[k] # None /\ k \notin Range(recognized)
    THEN "ValueError" ELSE "none"

\* The validation gate: the error raised, "none" when every key of params
\* is recognized.
_check_params(params, recognized) ==
    IF \E k \in DOMAIN params : k \notin Range(recognized)
    THEN "ValueError" ELSE "none"

\* The key of the mapping that feeds parameter p: the parameter's name, for
\* dimensions the attribute's.
KeyOf(b, p) == IF b.tag = "dimensions" THEN b.steps[StepOf(b, p)][4] ELSE p

\* Gate first; only then the element is created and filled.
ParamBuilder(h, b, recognized, params) ==
    IF _check_params(params, recognized) # "none"
    THEN [h |-> h, err |-> _check_params(params, recognized), emit |-> <<>>,
          res |-> 0]
    ELSE RunBuilder(h, b, [p \in Params(b) |->
                              IF KeyOf(b, p) \in DOMAIN params
                              THEN params[KeyOf(b, p)] ELSE None])

\* The mappings a caller passes: get_params' mapping or an empty one, with
\* up to two keys set, each a recognized key or the misspelt "typo".  The
\* call is the caller's last.
Mappings(recognized) ==
    LET keys == Range(recognized) \cup {"typo"}
        vals == {None, Str("PCM")}
    IN UNION {{(k1 :> v1) @@ (k2 :> v2) @@ base :
                  k1 \in keys, k2 \in keys, v1 \in vals, v2 \in vals} :
              base \in {<<>>, get_params(recognized)}}
       \cup {<<>>, get_params(recognized)}

CallParams(name, b, recognized, params) ==
    /\ LET r == ParamBuilder(heap, b, recognized, params) IN
         /\ heap' = r.h
         /\ last' = [op |-> name, args |-> params, res |-> r.res, err |-> r.err,
                     base |-> Len(heap), emit |-> r.emit]
    /\ ncalls' = ncalls + 1
    /\ done' = TRUE

Call_amd_file_data ==
    CanCall /\ \E m \in Mappings(FILE_DATA_PARAMS) :
        CallParams("amd_file_data", amd_fileData, FILE_DATA_PARAMS, m)

Call_amd_physical_data ==
    CanCall /\ \E m \in Mappings(PHYSICAL_DATA_PARAMS) :
        CallParams("amd_physical_data", amd_physicalData, PHYSICAL_DATA_PARAMS, m)

Call_amd_dimensions_params ==
    CanCall /\ \E m \in Mappings(DIMENSIONS_PARAMS) :
        CallParams("amd_dimensions_params", amd_dimensions, DIMENSIONS_PARAMS, m)

Call_amd_material_params ==
    CanCall /\ \E m \in Mappings(MATERIAL_PARAMS) :
        CallParams("amd_material_params", amd_material, MATERIAL_PARAMS, m)

NextParams ==
    \/ Call_amd_file_data
    \/ Call_amd_physical_data
    \/ Call_amd_dimensions_params
    \/ Call_amd_material_params

SpecParams == Init /\ [][NextParams]_vars

(***************************************************************************)
(* The tag resolver called on its own: audiomd_ns(tag, prefix) for local   *)
(* names and prefixes a caller may write.  The qualified name it returns   *)
(* is the call's result.                                                   *)
(***************************************************************************)
\* The characters local names are made of: a lower-case letter, an
\* upper-case letter and a digit.
TagChars == {"a", "B", "8"}

RECURSIVE TagsOfLen(_)
TagsOfLen(n) ==
    IF n = 0 THEN {""} ELSE {ch \o w : ch \in TagChars, w \in TagsOfLen(n - 1)}

\* The non-empty local names of up to MaxTag characters.
Tags == UNION {TagsOfLen(n) : n \in 1..MaxTag}

\* prefix="" is the default of the signature.
Prefixes == {"", "x", "Amd"}

Call_audiomd_ns ==
    /\ CanCall
    /\ \E tag \in Tags, prefix \in Prefixes :
           last' = [op |-> "audiomd_ns",
                    args |-> [tag |-> Str(tag), prefix |-> Str(prefix)],
                    res |-> audiomd_ns(tag, prefix), err |-> "none",
                    base |-> Len(heap), emit |-> <<>>]
    /\ ncalls' = ncalls + 1
    /\ done' = TRUE
    /\ UNCHANGED heap

NextNs == Call_audiomd_ns

SpecNs == Init /\ [][NextNs]_vars

(***************************************************************************)
(* Properties.  They read the last call (its arguments and outcome)        *)
(* against the heap after it.                                              *)
(***************************************************************************)
Returned == last.err = "none" /\ last.res # 0

Kids(id) == heap[id].children

\* The nodes the statement at position k of the last call attached, in the
\* order it attached them.
Attached(k) ==
    LET hits == SelectSeq(last.emit, LAMBDA e : e[1] = k)
    IN [i \in 1..Len(hits) |-> hits[i][2]]

\* The statement that attached node n last.
AttachedBy(n) ==
    LET i == CHOOSE j \in 1..Len(last.emit) :
                 /\ last.emit[j][2] = n
                 /\ \A m \in (j + 1)..Len(last.emit) : last.emit[m][2] # n
    IN last.emit[i][1]

TextsOf(ids) == [i \in 1..Len(ids) |-> heap[ids[i]].text]

\* ids are text children of the returned element with tag name, in the
\* order of ids.
TextChildren(ids, name) ==
    /\ ids = SelectSeq(Kids(last.res), LAMBDA n : n \in Range(ids))
    /\ \A i \in 1..Len(ids) :
           /\ heap[ids[i]].tag = "{http://www.loc.gov/audioMD/}" \o name
           /\ heap[ids[i]].hasText
           /\ heap[ids[i]].children = <<>>

MappingOps ==
    {"amd_file_data", "amd_physical_data", "amd_dimensions_params",
     "amd_material_params"}

RecognizedKeys(op) ==
    CASE op = "amd_file_data" -> Range(FILE_DATA_PARAMS)
      [] op = "amd_physical_data" -> Range(PHYSICAL_DATA_PARAMS)
      [] op = "amd_dimensions_params" -> Range(DIMENSIONS_PARAMS)
      [] op = "amd_material_params" -> Range(MATERIAL_PARAMS)
      [] OTHER -> {}

ExpectedTexts(v) ==
    CASE v.kind = "str" -> IF v.s = "" THEN <<>> ELSE <<v.s>>
      [] v.kind = "list" -> [i \in 1..Len(v.items) |-> v.items[i].s]
      [] OTHER -> <<>>

TextParams(b) == {p \in Params(b) : ParamOp(b, p) = "_simple_elements"}

PrebuiltParams(b) == {p \in Params(b) : ParamOp(b, p) = "_add_elements"}

\* C2: for every repeatable text field of a fileData call, the children
\* _simple_elements appended are: one child with the field's tag and the
\* whole string as text for a non-empty string, N children in list order
\* with the entries as texts for a list of N strings, none for an absent or
\* empty value (so "PCM" gives one child with text "PCM").
C2_SimpleElements ==
    last.op = "amd_fileData" =>
        /\ Returned
        /\ \A p \in TextParams(amd_fileData) :
               LET ids == Attached(StepOf(amd_fileData, p)) IN
               /\ TextsOf(ids) = ExpectedTexts(last.args[p])
               /\ TextChildren(ids, p)

\* The ids of the elements of a pre-built value, in order.
ExpectedElements(v) ==
    CASE v.kind = "elem" -> <<v.id>>
      [] v.kind = "list" -> [i \in 1..Len(v.items) |-> v.items[i].id]
      [] OTHER -> <<>>

\* C3: for every pre-built field of a fileData call, the elements
\* _add_elements appended are: the element itself for a single element, the
\* elements in list order for a list, none for an absent value; each ends up
\* a child of the returned element (so a compression element passed alone
\* is a child of fileData).
C3_AddElements ==
    last.op = "amd_fileData" =>
        /\ Returned
        /\ \A p \in PrebuiltParams(amd_fileData) :
               /\ Attached(StepOf(amd_fileData, p)) = ExpectedElements(last.args[p])
               /\ \A i \in 1..Len(ExpectedElements(last.args[p])) :
                      heap[ExpectedElements(last.args[p])[i]].parent = last.res

\* The positions of the children of node id that statement k attached.
PositionsOf(id, k) ==
    {i \in 1..Len(Kids(id)) : \E j \in 1..Len(last.emit) :
                                  last.emit[j] = <<k, Kids(id)[i]>>}

\* C4: a physicalData call with lists of pre-built dimensions, material and
\* tracking elements returns an element that holds every supplied element
\* as a child, the dimensions elements right after the condition children,
\* the material elements right after groove's and the tracking elements
\* right after trackFormat's.
C4_PhysicalDataHoldsPrebuilt ==
    last.op = "amd_physicalData" =>
        /\ Returned
        /\ \A p \in {"dimensions", "material", "tracking"} :
               LET ids == ExpectedElements(last.args[p])
                   k == StepOf(amd_physicalData, p)
               IN /\ \A i \in 1..Len(ids) : ids[i] \in Range(Kids(last.res))
                  /\ \A i \in PositionsOf(last.res, k) :
                         /\ \A j \in PositionsOf(last.res, k - 1) : j < i
                         /\ \A j \in PositionsOf(last.res, k + 1) : i < j

\* The values of the calibration-info call that are non-empty strings, as
\* <<tag, text>> in the fixed order of the four fields.
C5_Expected ==
    LET order == <<"calibrationExtInt", "calibrationLocation",
                   "calibrationTimeStamp", "calibrationTrackType">>
        given == SelectSeq(order, LAMBDA p : last.args[p].kind = "str"
                                              /\ last.args[p].s # "")
    IN [i \in 1..Len(given) |->
           <<"{http://www.loc.gov/audioMD/}" \o given[i], last.args[given[i]].s>>]

\* C5: a calibrationInfo call with each of its four values absent or a
\* string returns an element whose children are exactly one text child per
\* non-empty value, with that value as text, in the fixed order.
C5_CalibrationInfoChildren ==
    (/\ last.op = "amd_calibrationInfo"
     /\ \A p \in DOMAIN last.args : last.args[p].kind \in {"none", "str"}) =>
        /\ Returned
        /\ [i \in 1..Len(Kids(last.res)) |->
               <<heap[Kids(last.res)[i]].tag, heap[Kids(last.res)[i]].text>>]
           = C5_Expected

\* The sections passed to the root builder, in the order fileData,
\* physicalData, audioInfo, calibrationInfo.
C6_Supplied ==
    LET order == <<"fileData", "physicalData", "audioInfo", "calibrationInfo">>
        given == SelectSeq(order, LAMBDA p : last.args[p].kind = "elem")
    IN [i \in 1..Len(given) |-> last.args[given[i]].id]

\* C6: the root builder returns an element whose ANALOGDIGITALFLAG is the
\* value passed ("FileDigital" when left out) and whose children are
\* exactly the sections passed, once each, in the order fileData,
\* physicalData, audioInfo, calibrationInfo.
C6_RootHoldsSuppliedSections ==
    last.op = "audiomd" =>
        /\ Returned
        /\ "ANALOGDIGITALFLAG" \in DOMAIN heap[last.res].attrs
        /\ heap[last.res].attrs["ANALOGDIGITALFLAG"] = last.args["ANALOGDIGITALFLAG"].s
        /\ Kids(last.res) = C6_Supplied

\* C7: whatever builder is called with values of the documented shapes, the
\* call raises nothing but the unrecognized-parameter error (ValueError)
\* and otherwise returns an element.
C7_NoOtherError ==
    last.op # "none" =>
        /\ last.err \in {"none", "ValueError"}
        /\ last.err = "none" => last.res \in 1..Len(heap)

\* The fields of fileData in schema order, by parameter name.
C8_SchemaOrder ==
    <<"audioBlockSize", "audioDataEncoding", "bitsPerSample", "byteOrder",
      "messageDigest", "Compression", "dataRate", "dataRateMode",
      "firstSampleOffset", "firstValidByteBlock", "formatLocation",
      "formatName", "formatNote", "formatVersion", "lastValidByteBlock",
      "numSampleFrames", "samplingFrequency", "security", "use", "otherUse",
      "wordSize">>

\* The place in the schema order of the field whose statement attached
\* child n of the returned fileData.
C8_Rank(n) ==
    LET field == amd_fileData.steps[AttachedBy(n)][3]
    IN CHOOSE r \in 1..Len(C8_SchemaOrder) : C8_SchemaOrder[r] = field

\* C8: the children of the element a fileData call returns are in schema
\* order: each was attached for one of the fields, and a child of an
\* earlier field never follows a child of a later one.
C8_FileDataSchemaOrder ==
    (last.op = "amd_fileData" /\ Returned) =>
        /\ \A i \in 1..Len(Kids(last.res)) :
               \E j \in 1..Len(last.emit) : last.emit[j][2] = Kids(last.res)[i]
        /\ \A i, j \in 1..Len(Kids(last.res)) :
               i < j => C8_Rank(Kids(last.res)[i]) <= C8_Rank(Kids(last.res)[j])

\* A fileData built from two text children of a later field and a
\* compression element of an earlier one.
C8_Witness ==
    /\ last.op = "amd_fileData" /\ Returned
    /\ last.args["Compression"].kind = "list"
    /\ Len(last.args["Compression"].items) = 1
    /\ last.args["dataRate"] = List(<<Str("8"), Str("PCM")>>)
    /\ Len(Kids(last.res)) = 3
    /\ heap[Kids(last.res)[1]].tag = "{http://www.loc.gov/audioMD/}compression"

\* The attribute of each field of dimensions.
C9_Attribute ==
    [depth |-> "DEPTH", diameter |-> "DIAMETER", gauge |-> "GAUGE",
     height |-> "HEIGHT", length |-> "LENGTH", note |-> "NOTE",
     thickness |-> "THICKNESS", units |-> "UNITS", width |-> "WIDTH"]

C9_Given == {p \in DOMAIN C9_Attribute : last.args[p].kind = "str" /\ last.args[p].s # ""}

\* C9: the dimensions builder returns one new dimensions element without
\* children whose attributes are exactly those of the fields passed with a
\* non-empty value, each with the value passed.
C9_DimensionsAttributes ==
    last.op = "amd_dimensions" =>
        /\ Returned
        /\ Len(heap) = last.base + 1
        /\ heap[last.res].tag = "{http://www.loc.gov/audioMD/}dimensions"
        /\ Kids(last.res) = <<>>
        /\ DOMAIN heap[last.res].attrs = {C9_Attribute[p] : p \in C9_Given}
        /\ \A p \in C9_Given : heap[last.res].attrs[C9_Attribute[p]] = last.args[p].s

\* Dimensions built from two values.
C9_Witness ==
    /\ last.op = "amd_dimensions" /\ Returned
    /\ last.args["depth"] = Str("8")
    /\ last.args["width"] = Str("PCM")
    /\ DOMAIN heap[last.res].attrs = {"DEPTH", "WIDTH"}

\* A value that is passed: a non-empty string (an empty one counts as
\* absent throughout).
C10_Given(p) == last.args[p].kind = "str" /\ last.args[p].s # ""

\* C10: the sound-channel-map builder returns a soundChannelMap element
\* with exactly one child, a channelAssignment, which carries CHANNELNUM
\* iff a channel number was passed and MAPLOCATION iff a map location was,
\* each with the value passed, and no other attribute.
C10_SoundChannelMap ==
    last.op = "amd_soundChannelMap" =>
        /\ Returned
        /\ heap[last.res].tag = "{http://www.loc.gov/audioMD/}soundChannelMap"
        /\ heap[last.res].attrs = <<>>
        /\ Len(Kids(last.res)) = 1
        /\ LET ca == heap[Kids(last.res)[1]] IN
             /\ ca.tag = "{http://www.loc.gov/audioMD/}channelAssignment"
             /\ ca.children = <<>>
             /\ DOMAIN ca.attrs =
                    {a \in {"CHANNELNUM"} : C10_Given("channelnum")}
                    \cup {a \in {"MAPLOCATION"} : C10_Given("maplocation")}
             /\ C10_Given("channelnum") => ca.attrs["CHANNELNUM"] = last.args["channelnum"].s
             /\ C10_Given("maplocation") => ca.attrs["MAPLOCATION"] = last.args["maplocation"].s

\* A channel map built from a channel number alone.
C10_Witness ==
    /\ last.op = "amd_soundChannelMap" /\ Returned
    /\ last.args["channelnum"] = Str("8")
    /\ last.args["maplocation"] = None
    /\ Len(Kids(last.res)) = 1
    /\ DOMAIN heap[Kids(last.res)[1]].attrs = {"CHANNELNUM"}

\* The fields of the sections built from single text children, in the
\* section's fixed order.
C11_Fields ==
    [amd_compression |-> <<"codecCreatorApp", "codecCreatorAppVersion",
                           "codecName", "codecQuality">>,
     amd_material |-> <<"baseMaterial", "binder", "discSurface", "oxide",
                        "activeLayer", "reflectiveLayer", "stockBrand",
                        "method", "usedSides">>,
     amd_tracking |-> <<"trackingType", "trackingValue">>]

\* The non-empty values of the last call, as <<tag, text>> in field order.
C11_Expected ==
    LET given == SelectSeq(C11_Fields[last.op],
                           LAMBDA p : last.args[p].kind = "str"
                                      /\ last.args[p].s # "")
    IN [i \in 1..Len(given) |->
           <<"{http://www.loc.gov/audioMD/}" \o given[i], last.args[given[i]].s>>]

\* C11: a compression, material or tracking call returns an element whose
\* children are exactly one text child per field passed with a non-empty
\* value, with that value as text, in the section's field order; a field
\* that is absent or empty gets no child.  Each child was appended by the
\* single-text primitive to the returned element and has no children.
C11_OneSimpleElement ==
    last.op \in DOMAIN C11_Fields =>
        /\ Returned
        /\ [i \in 1..Len(Kids(last.res)) |->
               <<heap[Kids(last.res)[i]].tag, heap[Kids(last.res)[i]].text>>]
           = C11_Expected
        /\ \A i \in 1..Len(Kids(last.res)) :
               /\ heap[Kids(last.res)[i]].hasText
               /\ heap[Kids(last.res)[i]].children = <<>>
               /\ heap[Kids(last.res)[i]].parent = last.res

\* A compression built from a value, an empty string and two absent
\* fields: one child.
C11_Witness ==
    /\ last.op = "amd_compression" /\ Returned
    /\ last.args["codecCreatorApp"] = Str("")
    /\ last.args["codecName"] = Str("PCM")
    /\ last.args["codecQuality"] = None
    /\ Len(Kids(last.res)) = 1
    /\ heap[Kids(last.res)[1]].text = "PCM"

\* C12: a call leaves every element that existed before it as it was: its
\* children, its attributes and its text are the same after the call, also
\* when the call is passed an element that already sits in an earlier
\* tree; a call writes only to the elements it creates.
C12_BuiltTreesImmutable ==
    [][\A id \in 1..Len(heap) :
           /\ id <= Len(heap')
           /\ heap'[id].children = heap[id].children
           /\ heap'[id].attrs = heap[id].attrs
           /\ heap'[id].hasText = heap[id].hasText
           /\ heap'[id].text = heap[id].text]_vars

\* The namespace part of a qualified name.
C13_Namespace == "{http://www.loc.gov/audioMD/}"

\* The upper-case form of each character of TagChars.
C13_Upper == ("a" :> "A") @@ ("B" :> "B") @@ ("8" :> "8")

\* C13: the tag resolver, called with a non-empty local name, succeeds; with
\* an empty prefix it returns the namespace followed by the local name
\* unchanged; with a non-empty prefix it returns the namespace, the prefix,
\* the first character of the local name in upper case and the rest of the
\* local name unchanged.
C13_TagResolver ==
    last.op = "audiomd_ns" =>
        LET tag == last.args.tag.s
            prefix == last.args.prefix.s
            n == Len(C13_Namespace)
            k == Len(C13_Namespace) + Len(last.args.prefix.s)
        IN /\ last.err = "none"
           /\ SubSeq(last.res, 1, n) = C13_Namespace
           /\ prefix = "" => SubSeq(last.res, n + 1, Len(last.res)) = tag
           /\ prefix # "" =>
                  /\ Len(last.res) = k + Len(tag)
                  /\ SubSeq(last.res, n + 1, k) = prefix
                  /\ SubSeq(last.res, k + 1, k + 1) = C13_Upper[SubSeq(tag, 1, 1)]
                  /\ SubSeq(last.res, k + 2, Len(last.res)) = SubSeq(tag, 2, Len(tag))

\* A local name with a lower-case first letter resolved under a prefix:
\* the first character is upper-cased, the later lower-case one is not.
C13_Witness ==
    /\ last.op = "audiomd_ns"
    /\ last.args.tag = Str("aBa")
    /\ last.args.prefix = Str("x")
    /\ last.res = "{http://www.loc.gov/audioMD/}xABa"

====
